---------------------------- MODULE Spec2Model ----------------------------
(***************************************************************************)
(* PlayStation disc image tools: the code extractor and filename composer  *)
(* of the taggers (02_tagBinCuePairsWithIDs.py, 04_tagPs2IsosWithIDs.py),  *)
(* the cue retargeting of the PS1 tagger, the cue synthesizer and batch    *)
(* loop of 01_createSingleBinCue.py and the grouping key and batch loop of *)
(* 03_compressBinCueGames.py.                                              *)
(*                                                                         *)
(* Text is a sequence of one-character strings.  A Python value that is    *)
(* None or "" (both false under `not x`) is the empty sequence.  File      *)
(* operations are those of a POSIX system: names compare by code point,    *)
(* rename replaces an existing target, text is written with "\n".          *)
(***************************************************************************)
EXTENDS Integers, Sequences, FiniteSets, TLC

VARIABLES
    tool,          \* the program: "single" 01_createSingleBinCue.py, "ps1" 02_tagBinCuePairsWithIDs.py,
                   \* "pack" 03_compressBinCueGames.py, "ps2" 04_tagPs2IsosWithIDs.py
    stem,          \* the file stem handed to the planner
    content,       \* the bytes of that file
    raw,           \* the token the name or byte pattern matched (None: no match)
    code,          \* main's `code`
    new_stem,      \* main's `new_stem`
    code2,         \* `code` when the renamed file is planned again
    new_stem2,     \* `new_stem` of that second pass
    npc,           \* the planner's position: "start", "planned", "skipped", "replanned"
    cue_src,       \* the cue as written: a sequence of line descriptions
    cue_text,      \* the bytes of the cue file
    new_bin_name,  \* update_cue_file's new_bin_name
    changed,       \* its return value
    cpc,           \* "start", "done"
    fs,            \* the directory: file name -> bytes
    dry_run,       \* args.dry_run
    files,         \* main's bin_files / iso_files
    idx,           \* position in the loop over files, then over work_items
    work_items,    \* main's work_items
    tpc,           \* main's position: "start", "plan", "rename", "done", "crashed"
    stream,        \* the bytes of the file find_disc_code reads
    tok,           \* the token written into the stream (<<>>: none)
    tok_pos,       \* the offset of its first byte
    scanned,       \* find_disc_code's `scanned`
    result,        \* find_disc_code's return value
    spc,           \* find_disc_code's position: "read", "done"
    game_files,    \* the extracted game folder: the paths of its files
    base_name,     \* the archive's stem
    cue_ret,       \* what locate_or_build_cue returned (None: skipped)
    tmp_bins,      \* the fresh folder's copied tracks: name -> path copied from
    tmp_cues,      \* the fresh folder's cue files: name -> text
    ypc,           \* "start", "done"
    disc_a,        \* a disc: title, marker form, disc number, text after the marker, product code
    disc_b,        \* another disc of the same title
    key_a,         \* game_key_from_stem's key for the first disc's stem
    key_b,         \* and for the second's
    kpc,           \* "start", "done"
    root_tree,     \* the root folder: the paths of its files
    archive_trees, \* 01: archive name -> the paths 7z would extract from it
    opt_overwrite, \* 03: --overwrite
    opt_dry_run,   \* 03: --dry-run
    games,         \* 03: collect_games's dict, key -> [display, files]
    units,         \* the items of the batch in processing order: 03 sorted(games), 01 archives or cues
    bidx,          \* the position of the loop in units
    visited,       \* the positions whose loop pass has begun
    exit_code,     \* the program's exit status (-1: still running)
    bpc            \* "start", "games", "archives", "cues", "done"

nameVars == <<stem, content, raw, code, new_stem, code2, new_stem2, npc>>
cueVars == <<cue_src, cue_text, new_bin_name, changed, cpc>>
tagVars == <<fs, dry_run, files, idx, work_items, tpc>>
scanVars == <<stream, tok, tok_pos, scanned, result, spc>>
synthVars == <<game_files, base_name, cue_ret, tmp_bins, tmp_cues, ypc>>
keyVars == <<disc_a, disc_b, key_a, key_b, kpc>>
batchVars == <<root_tree, archive_trees, opt_overwrite, opt_dry_run, games, units, bidx, visited, exit_code, bpc>>

vars == <<tool, nameVars, cueVars, tagVars, scanVars, synthVars, keyVars, batchVars>>

\* What the actions of one part leave alone: the other parts and the tool
nameFrame == <<tool, cueVars, tagVars, scanVars, synthVars, keyVars, batchVars>>
cueFrame == <<tool, nameVars, tagVars, scanVars, synthVars, keyVars, batchVars>>
tagFrame == <<tool, nameVars, cueVars, scanVars, synthVars, keyVars, batchVars>>
scanFrame == <<tool, nameVars, cueVars, tagVars, synthVars, keyVars, batchVars>>
synthFrame == <<tool, nameVars, cueVars, tagVars, scanVars, keyVars, batchVars>>
keyFrame == <<tool, nameVars, cueVars, tagVars, scanVars, synthVars, batchVars>>
batchFrame == <<tool, nameVars, cueVars, tagVars, scanVars, synthVars, keyVars>>

None == <<>>

-----------------------------------------------------------------------------
(* Characters *)

UpperSeq == <<"A","B","C","D","E","F","G","H","I","J","K","L","M",
              "N","O","P","Q","R","S","T","U","V","W","X","Y","Z">>
LowerSeq == <<"a","b","c","d","e","f","g","h","i","j","k","l","m",
              "n","o","p","q","r","s","t","u","v","w","x","y","z">>
DigitChars == {"0","1","2","3","4","5","6","7","8","9"}
SpaceChars == {" ", "\t", "\n", "\r"}

Range(f) == {f[i] : i \in DOMAIN f}
UpperChars == Range(UpperSeq)
LowerChars == Range(LowerSeq)

IsUpper(c) == c \in UpperChars
IsLower(c) == c \in LowerChars
IsDigit(c) == c \in DigitChars
IsSpace(c) == c \in SpaceChars

ToUpper(c) == IF IsLower(c) THEN UpperSeq[CHOOSE i \in DOMAIN LowerSeq : LowerSeq[i] = c] ELSE c
ToLower(c) == IF IsUpper(c) THEN LowerSeq[CHOOSE i \in DOMAIN UpperSeq : UpperSeq[i] = c] ELSE c

\* str.upper(), str.lower()
upper(s) == [i \in 1..Len(s) |-> ToUpper(s[i])]
lower(s) == [i \in 1..Len(s) |-> ToLower(s[i])]

\* s[i], or "" outside the text
At(s, i) == IF i >= 1 /\ i <= Len(s) THEN s[i] ELSE ""

Max(S) == CHOOSE x \in S : \A y \in S : y <= x
Min(S) == CHOOSE x \in S : \A y \in S : x <= y

RECURSIVE ReplaceChar(_, _, _)
\* str.replace(a, b) for a one-character a; b is a text (possibly empty)
ReplaceChar(s, a, b) ==
    IF s = <<>> THEN <<>>
    ELSE (IF Head(s) = a THEN b ELSE <<Head(s)>>) \o ReplaceChar(Tail(s), a, b)

RECURSIVE rstrip(_)
\* str.rstrip()
rstrip(s) ==
    IF s # <<>> /\ IsSpace(s[Len(s)]) THEN rstrip(SubSeq(s, 1, Len(s) - 1)) ELSE s

RECURSIVE lstrip(_)
lstrip(s) ==
    IF s # <<>> /\ IsSpace(Head(s)) THEN lstrip(Tail(s)) ELSE s

\* str.strip()
strip(s) == lstrip(rstrip(s))

\* How many of s[i], s[i+1], ... are digits, up to most
DigitRun(s, i, most) ==
    Max({k \in 0..most : \A j \in 0..(k - 1) : IsDigit(At(s, i + j))})

-----------------------------------------------------------------------------
(* The code grammar of the two taggers *)

\* A letter of [A-Z], or of [A-Za-z] under re.IGNORECASE
IsLetter(c, icase) == IsUpper(c) \/ (icase /\ IsLower(c))
\* The literal letter l of the pattern
IsLit(c, l, icase) == c = l \/ (icase /\ ToUpper(c) = l)

\* How many of s[i], s[i+1], ... are letters of the class, up to 5
LetterRun(s, i, icase) ==
    Max({k \in 0..5 : \A j \in 0..(k - 1) : IsLetter(At(s, i + j), icase)})

\* Whether the prefix may start at s[i]:  ps1  S[LC]...   ps2  any letters
PrefixFamily(t, icase, s, i) ==
    \/ t = "ps2"
    \/ /\ IsLit(At(s, i), "S", icase)
       /\ (IsLit(At(s, i + 1), "L", icase) \/ IsLit(At(s, i + 1), "C", icase))

\* The prefix length given the run of letters at s[i]: the prefix is followed
\* by [-_], which is no letter, so at most one length fits
PrefixOfRun(s, i, letters) ==
    IF letters = 5 /\ At(s, i + 5) \in {"-", "_"} THEN 5
    ELSE IF letters >= 4 /\ At(s, i + 4) \in {"-", "_"} THEN 4
    ELSE 0

\* Length of the prefix the pattern takes at s[i..] (0: none):
\*   ps1  S[LC][A-Z]{2}[A-Z]?      ps2  [A-Z]{4,5}
PrefixLen(t, icase, s, i) ==
    IF PrefixFamily(t, icase, s, i) THEN PrefixOfRun(s, i, LetterRun(s, i, icase)) ELSE 0

\* (?:\.[0-9]{2})? after the digit run that ends at s[e]
DottedEnd(s, e) ==
    IF At(s, e + 1) = "." /\ IsDigit(At(s, e + 2)) /\ IsDigit(At(s, e + 3)) THEN e + 3 ELSE e

\* [0-9]{3,5}, greedy, from s[d0], then the dotted pair
DigitsEnd(s, d0, digits) ==
    IF digits < 3 THEN 0 ELSE DottedEnd(s, d0 + digits - 1)

\* The rest of the pattern after a prefix of length p at s[i]
SepDigitsEnd(s, i, p) ==
    IF p = 0 THEN 0 ELSE DigitsEnd(s, i + p + 1, DigitRun(s, i + p + 1, 5))

\* Index of the last character of the match of
\*   <prefix>[-_][0-9]{3,5}(?:\.[0-9]{2})?
\* starting at s[i], or 0 when the pattern does not match there
CodeMatchEnd(t, icase, s, i) == SepDigitsEnd(s, i, PrefixLen(t, icase, s, i))

\* The leftmost position the pattern matches at, Len(s) + 1 when none
FirstStart(t, icase, s) ==
    Min({i \in 1..(Len(s) + 1) : i = Len(s) + 1 \/ CodeMatchEnd(t, icase, s, i) # 0})

SpanFrom(t, icase, s, i) ==
    IF i > Len(s) THEN <<0, 0>> ELSE <<i, CodeMatchEnd(t, icase, s, i)>>

\* Pattern.search: the leftmost match, as <<first, last>>, or <<0, 0>>
CodeSearch(t, icase, s) == SpanFrom(t, icase, s, FirstStart(t, icase, s))

ID_BYTES_RE(t, s) == CodeSearch(t, FALSE, s)
NAME_CODE_RE(t, s) == CodeSearch(t, TRUE, s)

\* A variant that keeps the letter case of the token
normalize_code_no_upper(t, r) == ReplaceChar(ReplaceChar(r, "_", <<"-">>), ".", <<>>)

\* raw.replace("_", "-").replace(".", "").upper()
normalize_code(t, r) == upper(ReplaceChar(ReplaceChar(r, "_", <<"-">>), ".", <<>>))

\* m.group(): the text of span m of s, None for no match
group(s, m) == IF m[1] = 0 THEN None ELSE SubSeq(s, m[1], m[2])

\* m.group(1) if m else None
extract_code_from_name(t, s) == group(s, NAME_CODE_RE(t, s))

\* Bytes per MiB of the model's streams (the programs' 1024 * 1024, scaled)
MiB == 4
READ_CHUNK == 4 * MiB
MAX_SCAN == 64 * MiB

\* handle.read(READ_CHUNK) after `scanned` bytes
read_chunk(bytes, nread) ==
    SubSeq(bytes, nread + 1, Min({nread + READ_CHUNK, Len(bytes)}))

\* One pass of find_disc_code's loop over a chunk that is not empty:
\* [found, code, nread]
scan_chunk(t, chunk, m, nread) ==
    [found   |-> m[1] # 0,
     code    |-> IF m[1] # 0 THEN normalize_code(t, group(chunk, m)) ELSE None,
     scanned |-> nread + Len(chunk)]

\* A variant that stops only once more than MAX_SCAN bytes are read
cap_reached_late(nread) == nread > MAX_SCAN

\* if nread >= MAX_SCAN: break
cap_reached(nread) == nread >= MAX_SCAN

RECURSIVE scan_from(_, _, _)
scan_next(t, bytes, r) ==
    IF r.found THEN r.code
    ELSE IF cap_reached(r.scanned) THEN None
    ELSE scan_from(t, bytes, r.scanned)

scan_read(t, bytes, nread, chunk) ==
    IF chunk = <<>> THEN None
    ELSE scan_next(t, bytes, scan_chunk(t, chunk, ID_BYTES_RE(t, chunk), nread))

\* The read loop of find_disc_code with `scanned` bytes already read
scan_from(t, bytes, nread) == scan_read(t, bytes, nread, read_chunk(bytes, nread))

find_disc_code(t, bytes) == scan_from(t, bytes, 0)

\* The text s with span m replaced by c
sub_span(c, s, m) ==
    IF m[1] = 0 THEN s
    ELSE SubSeq(s, 1, m[1] - 1) \o c \o SubSeq(s, m[2] + 1, Len(s))

\* NAME_CODE_RE.sub(code, stem, count=1)
sub_first(t, c, s) == sub_span(c, s, NAME_CODE_RE(t, s))

\* f"{stem.rstrip()} [{code}]"
build_new_base(s, c) == rstrip(s) \o <<" ", "[">> \o c \o <<"]">>

build_new_stem(t, s, c, has_code) ==
    IF has_code THEN sub_first(t, c, s) ELSE build_new_base(s, c)

plan_stem(t, s, code_in_name, c) ==
    [code_in_name |-> code_in_name,
     code         |-> c,
     new_stem     |-> IF c = None THEN None
                      ELSE build_new_stem(t, s, c, code_in_name # None)]

plan_code(t, s, bytes, code_in_name) ==
    plan_stem(t, s, code_in_name,
              IF code_in_name # None THEN normalize_code(t, code_in_name)
              ELSE find_disc_code(t, bytes))

\* One pass of main's planning loop over a file: the token of the name, the
\* code and the new stem (code = None: the file is skipped)
plan_item(t, s, bytes) == plan_code(t, s, bytes, extract_code_from_name(t, s))

-----------------------------------------------------------------------------
(* Inputs of the name planner *)

NUL == "NUL"

Title == <<"G","a","m","e">>

TokenPrefixes == { <<"S","L","U","S">>, <<"s","l","u","s">>,
                   <<"S","C","E","S","A">>, <<"P","B","P","X">> }
TokenDigits == { <<"0","0","5">>, <<"1","2","3","4">>, <<"0","0","5","9","4">> }
TokenDots == { <<>>, <<".","9","4">> }

\* Spellings of a code: prefix, '-' or '_', 3-5 digits, optional '.NN'
RawTokens == { p \o <<sep>> \o d \o x :
                 p \in TokenPrefixes, sep \in {"-", "_"}, d \in TokenDigits, x \in TokenDots }

Stems == { Title, Title \o <<" ">> }
         \cup { Title \o <<" ">> \o k : k \in RawTokens }
         \cup { Title \o <<" ", "[">> \o k \o <<"]">> : k \in RawTokens }
         \cup { k \o <<" ">> \o Title : k \in RawTokens }

Contents == { <<NUL, NUL>> }
            \cup { <<NUL>> \o k \o <<NUL>> :
                     k \in { r \in RawTokens : r[1] \in {"S", "P"} /\ Len(r) <= 12 } }

-----------------------------------------------------------------------------
(* The planner applied to a file, and again to the name it produced *)

\* The token main's code comes from: the one in the name, else the first one
\* of the first chunk that holds one
matched_token(t, s, bytes) ==
    IF NAME_CODE_RE(t, s)[1] # 0 THEN extract_code_from_name(t, s)
    ELSE group(read_chunk(bytes, 0), ID_BYTES_RE(t, read_chunk(bytes, 0)))

Plan ==
    /\ npc = "start"
    /\ \E item \in {plan_item(tool, stem, content)} :
           /\ raw' = matched_token(tool, stem, content)
           /\ code' = item.code
           /\ new_stem' = item.new_stem
           /\ npc' = IF item.code = None THEN "skipped" ELSE "planned"
    /\ UNCHANGED <<stem, content, code2, new_stem2>>
    /\ UNCHANGED nameFrame

\* A later run finds the renamed file and plans it again
Replan ==
    /\ npc = "planned"
    /\ \E item \in {plan_item(tool, new_stem, content)} :
           /\ code2' = item.code
           /\ new_stem2' = item.new_stem
           /\ npc' = "replanned"
    /\ UNCHANGED <<stem, content, raw, code, new_stem>>
    /\ UNCHANGED nameFrame

-----------------------------------------------------------------------------
(* Retargeting a cue: update_cue_file of the PS1 tagger *)

CR == "\r"
LF == "\n"
QUOTE == "\""

RECURSIVE universal_newlines(_)
\* Path.read_text opens in text mode with newline=None: "\r\n" and "\r" are
\* read as "\n"
universal_newlines(b) ==
    IF b = <<>> THEN <<>>
    ELSE IF Head(b) = CR
         THEN <<LF>> \o universal_newlines(IF At(b, 2) = LF THEN Tail(Tail(b)) ELSE Tail(b))
         ELSE <<Head(b)>> \o universal_newlines(Tail(b))

RECURSIVE splitlines_keepends(_)
\* str.splitlines(keepends=True) of a text whose only line breaks are "\n",
\* "\r" and "\r\n"
splitlines_keepends(s) ==
    IF s = <<>> THEN <<>>
    ELSE LET brk == {i \in 1..Len(s) : s[i] \in {CR, LF}}
             b   == IF brk = {} THEN Len(s) ELSE Min(brk)
             e   == IF brk # {} /\ s[b] = CR /\ At(s, b + 1) = LF THEN b + 1 ELSE b
         IN  <<SubSeq(s, 1, e)>> \o splitlines_keepends(SubSeq(s, e + 1, Len(s)))

\* How many of s[i], s[i+1], ... are whitespace
SpaceRun(s, i) ==
    Max({k \in 0..(Len(s) + 1) : \A j \in 0..(k - 1) : IsSpace(At(s, i + j))})

\* FILE_LINE_RE.match(core) for a core without line breaks:
\*     (?i)^FILE\s+\"?([^\"]+?)\"?\s*(.*)$
\* as [ok, g1, g2].  \s+ takes the whole run of whitespace, \"? a quote that
\* follows it, and the lazy group one character, since \"?\s*(.*)$ matches
\* whatever is left; when no character other than a quote is there to take,
\* the engine gives back one whitespace character of \s+, which the group
\* then takes.
FILE_LINE_RE(core) ==
    LET kw  == /\ ToUpper(At(core, 1)) = "F" /\ ToUpper(At(core, 2)) = "I"
               /\ ToUpper(At(core, 3)) = "L" /\ ToUpper(At(core, 4)) = "E"
        ws  == SpaceRun(core, 5)
        p   == 5 + ws
        isChar(i) == At(core, i) # "" /\ At(core, i) # QUOTE
        g   == IF At(core, p) = QUOTE /\ isChar(p + 1) THEN p + 1
               ELSE IF isChar(p) THEN p
               ELSE IF ws >= 2 THEN p - 1
               ELSE 0
        q   == IF At(core, g + 1) = QUOTE THEN g + 2 ELSE g + 1
        r   == q + SpaceRun(core, q)
    IN  IF ~kw \/ ws = 0 \/ g = 0
        THEN [ok |-> FALSE, g1 |-> <<>>, g2 |-> <<>>]
        ELSE [ok |-> TRUE, g1 |-> <<core[g]>>, g2 |-> SubSeq(core, r, Len(core))]

\* The line ending update_cue_file splits off
line_end_of(line) ==
    IF Len(line) >= 2 /\ SubSeq(line, Len(line) - 1, Len(line)) = <<CR, LF>> THEN <<CR, LF>>
    ELSE IF Len(line) >= 1 /\ line[Len(line)] = LF THEN <<LF>>
    ELSE <<>>

FILE_WORD == <<"F","I","L","E">>

\* The body of update_cue_file's loop for one line
update_line(line, name) ==
    LET line_end == line_end_of(line)
        core     == SubSeq(line, 1, Len(line) - Len(line_end))
        m        == FILE_LINE_RE(core)
        rest     == strip(m.g2)
    IN  IF ~m.ok THEN line
        ELSE FILE_WORD \o <<" ", QUOTE>> \o name \o <<QUOTE>>
             \o (IF rest # <<>> THEN <<" ">> \o rest ELSE <<>>) \o line_end

RECURSIVE join(_)
\* "".join(lines)
join(lines) == IF lines = <<>> THEN <<>> ELSE Head(lines) \o join(Tail(lines))

\* update_cue_file: [changed, text], text being the file's bytes afterwards
\* (write_text with the "\n" line separator of POSIX)
update_cue_file(bytes, name) ==
    LET raw_lines == splitlines_keepends(universal_newlines(bytes))
        hit       == \E i \in 1..Len(raw_lines) :
                        FILE_LINE_RE(SubSeq(raw_lines[i], 1,
                            Len(raw_lines[i]) - Len(line_end_of(raw_lines[i])))).ok
        out       == [i \in 1..Len(raw_lines) |-> update_line(raw_lines[i], name)]
    IN  [changed |-> hit, text |-> IF hit THEN join(out) ELSE bytes]

\* Inputs: cue lines by their parts
MaxCueLines == 2

BINARY == <<"B","I","N","A","R","Y">>
TrackLine == <<" "," ","T","R","A","C","K"," ","0","1"," ","A","U","D","I","O">>

FileLines ==
    [kind : {"file"}, kw : {FILE_WORD, <<"f","i","l","e">>}, quoted : BOOLEAN,
     fname : {<<"a">>, <<"o","l","d",".","b","i","n">>}, trail : {<<>>, BINARY},
     eol : {<<LF>>, <<CR, LF>>}]
OtherLines ==
    [kind : {"other"}, kw : {<<>>}, quoted : {FALSE}, fname : {<<>>}, trail : {TrackLine},
     eol : {<<LF>>, <<CR, LF>>}]
CueLines == FileLines \cup OtherLines

\* The text of a line
render_line(l) ==
    IF l.kind = "file"
    THEN l.kw \o <<" ">> \o (IF l.quoted THEN <<QUOTE>> \o l.fname \o <<QUOTE>> ELSE l.fname)
         \o (IF l.trail # <<>> THEN <<" ">> \o l.trail ELSE <<>>) \o l.eol
    ELSE l.trail \o l.eol

render_cue(ls) == join([i \in 1..Len(ls) |-> render_line(ls[i])])

NewBin == <<"n",".","b","i","n">>

UpdateCueFile ==
    /\ cpc = "start"
    /\ LET r == update_cue_file(cue_text, new_bin_name)
       IN  /\ changed' = r.changed
           /\ cue_text' = r.text
    /\ cpc' = "done"
    /\ UNCHANGED <<cue_src, new_bin_name>>
    /\ UNCHANGED cueFrame

-----------------------------------------------------------------------------
(* A tagging run: main of the two taggers over a directory *)

\* The characters of file names in code point order
AsciiOrder == <<" ", "(", ")", "-", ".", "0","1","2","3","4","5","6","7","8","9">>
              \o UpperSeq \o <<"[", "]", "_">> \o LowerSeq
Ord(c) == CHOOSE i \in DOMAIN AsciiOrder : AsciiOrder[i] = c

\* a < b for two names (str.__lt__ through PurePath.__lt__)
NameLess(a, b) ==
    \E k \in 1..(Len(a) + 1) :
        /\ \A j \in 1..(k - 1) : j <= Len(b) /\ a[j] = b[j]
        /\ k <= Len(b)
        /\ (k > Len(a) \/ Ord(a[k]) < Ord(b[k]))

RECURSIVE sorted(_)
\* sorted(paths) for a set of names of one directory
sorted(S) ==
    IF S = {} THEN <<>>
    ELSE LET first == CHOOSE x \in S : \A y \in S \ {x} : NameLess(x, y)
         IN  <<first>> \o sorted(S \ {first})

\* name.rfind("."), 1-based, 0 when there is no dot
rfind_dot(name) == Max({0} \cup {i \in 1..Len(name) : name[i] = "."})

suffix_at(name, i) == IF 1 < i /\ i < Len(name) THEN SubSeq(name, i, Len(name)) ELSE <<>>
stem_at(name, i) == IF 1 < i /\ i < Len(name) THEN SubSeq(name, 1, i - 1) ELSE name

\* PurePath.suffix, PurePath.stem, PurePath.with_suffix
path_suffix(name) == suffix_at(name, rfind_dot(name))
path_stem(name) == stem_at(name, rfind_dot(name))
with_suffix(name, sfx) == path_stem(name) \o sfx

DOT_BIN == <<".","b","i","n">>
DOT_CUE == <<".","c","u","e">>
DOT_ISO == <<".","i","s","o">>

\* The suffix main looks for
wanted_suffix(t) == IF t = "ps1" THEN DOT_BIN ELSE DOT_ISO

\* bin_files / iso_files: sorted(p for p in root.iterdir() if p.suffix.lower() == ".bin")
list_files(t, f) ==
    sorted({n \in DOMAIN f : lower(path_suffix(n)) = wanted_suffix(t)})

\* cue_for_bin; the ISO tagger knows no cue
cue_for_bin(t, f, bin_path) ==
    IF t = "ps1" /\ with_suffix(bin_path, DOT_CUE) \in DOMAIN f
    THEN with_suffix(bin_path, DOT_CUE) ELSE None

\* Path.rename on POSIX: the target, if there is one, is replaced
fs_rename(f, old, new) ==
    IF old = new THEN f
    ELSE [n \in (DOMAIN f \ {old}) \cup {new} |-> IF n = new THEN f[old] ELSE f[n]]

\* The file system after update_cue_file(cue_path, new_bin.name)
fs_update_cue(f, cue_path, name) ==
    [f EXCEPT ![cue_path] = update_cue_file(f[cue_path], name).text]

\* The work item main plans for a file, given the planner's result for its
\* stem and its cue; skip: the file is not planned
work_item(f, path, cue_path, item) ==
    [old     |-> path,
     cue     |-> cue_path,
     new     |-> item.new_stem \o path_suffix(path),
     new_cue |-> IF cue_path # None THEN item.new_stem \o DOT_CUE ELSE None,
     code    |-> item.code]

\* "Target ... already exists" of the planning loop
target_exists(f, w) ==
    \/ (w.new \in DOMAIN f /\ w.new # w.old)
    \/ (w.new_cue # None /\ w.new_cue \in DOMAIN f /\ w.new_cue # w.cue)

\* Whether the planning loop appends the work item
plan_appends(f, items, item, w) ==
    /\ item.code # None
    /\ ~target_exists(f, w)

\* The renames of one work item: [ok, fs]; ok = FALSE: a rename or the read of
\* the cue raised FileNotFoundError
rename_bin(f, w) ==
    IF w.old \notin DOMAIN f THEN [ok |-> FALSE, fs |-> f]
    ELSE [ok |-> TRUE, fs |-> fs_rename(f, w.old, w.new)]

rename_cue(r, w) ==
    IF ~r.ok \/ w.cue = None \/ w.new_cue = None THEN r
    ELSE IF w.cue \notin DOMAIN r.fs THEN [ok |-> FALSE, fs |-> r.fs]
    ELSE [ok |-> TRUE, fs |-> fs_rename(r.fs, w.cue, w.new_cue)]

rename_item(f, w) ==
    IF w.cue = None THEN rename_bin(f, w)
    ELSE IF w.cue \notin DOMAIN f THEN [ok |-> FALSE, fs |-> f]
    ELSE rename_cue(rename_bin(fs_update_cue(f, w.cue, w.new), w), w)

\* main up to the planning loop
TagStart ==
    /\ tpc = "start"
    /\ files' = list_files(tool, fs)
    /\ idx' = 1
    /\ work_items' = <<>>
    /\ tpc' = IF list_files(tool, fs) = <<>> THEN "done" ELSE "plan"
    /\ UNCHANGED <<fs, dry_run>>
    /\ UNCHANGED tagFrame

\* One pass of the planning loop
PlanStep ==
    /\ tpc = "plan"
    /\ idx <= Len(files)
    /\ \E item \in {plan_item(tool, path_stem(files[idx]), fs[files[idx]])} :
       \E w \in {work_item(fs, files[idx], cue_for_bin(tool, fs, files[idx]), item)} :
           work_items' = IF plan_appends(fs, work_items, item, w)
                         THEN Append(work_items, w) ELSE work_items
    /\ idx' = idx + 1
    /\ UNCHANGED <<fs, dry_run, files, tpc>>
    /\ UNCHANGED tagFrame

\* After the planning loop: nothing to do, a dry run, or on to the renames
PlanEnd ==
    /\ tpc = "plan"
    /\ idx > Len(files)
    /\ tpc' = IF work_items = <<>> \/ dry_run THEN "done" ELSE "rename"
    /\ idx' = 1
    /\ UNCHANGED <<fs, dry_run, files, work_items>>
    /\ UNCHANGED tagFrame

\* One pass of the rename loop
RenameStep ==
    /\ tpc = "rename"
    /\ idx <= Len(work_items)
    /\ \E r \in {rename_item(fs, work_items[idx])} :
           /\ fs' = r.fs
           /\ tpc' = IF r.ok THEN "rename" ELSE "crashed"
    /\ idx' = idx + 1
    /\ UNCHANGED <<dry_run, files, work_items>>
    /\ UNCHANGED tagFrame

RenameEnd ==
    /\ tpc = "rename"
    /\ idx > Len(work_items)
    /\ tpc' = "done"
    /\ UNCHANGED <<fs, dry_run, files, work_items, idx>>
    /\ UNCHANGED tagFrame

\* Inputs: directories of at most MaxFiles files out of a pool of names
MaxFiles == 3

CodeTag == <<"S","L","U","S","-","0","0","5">>
RawTag == <<"S","L","U","S","_","0","0","5">>

\* Stems without a code (the code is in the bytes), with a raw code, with the
\* canonical code, and the stem the code-less ones are renamed to
PoolStems ==
    { Title, Title \o <<" ">>,
      Title \o <<" ">> \o RawTag,
      Title \o <<" ">> \o lower(CodeTag),
      Title \o <<" ">> \o CodeTag,
      Title \o <<" ", "[">> \o CodeTag \o <<"]">>,
      <<"O","t","h","e","r">> }

Pool(t) ==
    IF t = "ps1"
    THEN {s \o DOT_BIN : s \in PoolStems} \cup {s \o DOT_CUE : s \in PoolStems}
    ELSE {s \o DOT_ISO : s \in PoolStems} \cup {Title \o DOT_CUE}

\* The bytes of a file of the pool: a cue names its BIN; an image without a
\* code in its name holds the raw code, except Other
ContentOf(n) ==
    IF path_suffix(n) = DOT_CUE
    THEN FILE_WORD \o <<" ", QUOTE>> \o path_stem(n) \o DOT_BIN \o <<QUOTE, " ">> \o BINARY \o <<LF>>
    ELSE IF rstrip(path_stem(n)) = Title THEN <<NUL>> \o RawTag \o <<NUL>>
    ELSE <<NUL, NUL>>

Directories(t) ==
    {[n \in D |-> ContentOf(n)] : D \in {X \in SUBSET Pool(t) : Cardinality(X) <= MaxFiles}}

-----------------------------------------------------------------------------
(* The content scan: find_disc_code, one read at a time *)

\* One pass of find_disc_code's loop: read a chunk; stop at the end of the
\* file, at a match, or once MAX_SCAN bytes are read
ScanStep ==
    /\ spc = "read"
    /\ \E chunk \in {read_chunk(stream, scanned)} :
          IF chunk = <<>>
          THEN /\ result' = None
               /\ spc' = "done"
               /\ UNCHANGED scanned
          ELSE \E r \in {scan_chunk(tool, chunk, ID_BYTES_RE(tool, chunk), scanned)} :
                  /\ scanned' = r.scanned
                  /\ result' = r.code
                  /\ spc' = IF r.found \/ cap_reached(r.scanned) THEN "done" ELSE "read"
    /\ UNCHANGED <<stream, tok, tok_pos>>
    /\ UNCHANGED scanFrame

\* Inputs: NUL bytes, a token at some offset, NUL bytes
Pad(n) == [i \in 1..n |-> NUL]

ScanTokens ==
    { <<>>,
      <<"S","L","U","S","_","0","0","5","9","4">>,
      <<"S","L","U","S","_","0","0","5",".","9","4">>,
      <<"P","B","P","X","-","1","2","3">> }

-----------------------------------------------------------------------------
(* Cue synthesis: locate_or_build_cue and synthesize_cue of 01 *)

\* A path below the game folder is the sequence of its parts.
\* p < q for two such paths (PurePath.__lt__: the parts, part by part)
PathLess(p, q) ==
    \E k \in 1..(Len(p) + 1) :
        /\ \A j \in 1..(k - 1) : j <= Len(q) /\ p[j] = q[j]
        /\ k <= Len(q)
        /\ (k > Len(p) \/ NameLess(p[k], q[k]))

RECURSIVE sorted_paths(_)
sorted_paths(S) ==
    IF S = {} THEN <<>>
    ELSE LET first == CHOOSE x \in S : \A y \in S \ {x} : PathLess(x, y)
         IN  <<first>> \o sorted_paths(S \ {first})

\* The last part of a path: Path.name
path_name(p) == p[Len(p)]

\* fnmatch of "*<sfx>" against a name
ends_with(name, sfx) ==
    Len(name) >= Len(sfx) /\ SubSeq(name, Len(name) - Len(sfx) + 1, Len(name)) = sfx

\* str.startswith
starts_with(s, p) == Len(s) >= Len(p) /\ SubSeq(s, 1, Len(p)) = p

\* find_with_depth(root, "*<sfx>", max_depth=2)
find_with_depth(tree, sfx) ==
    sorted_paths({p \in tree : ends_with(path_name(p), sfx) /\ Len(p) <= 2})

DigitSeq == <<"0","1","2","3","4","5","6","7","8","9">>

RECURSIVE dec(_)
\* str(n) for n >= 0
dec(n) == IF n < 10 THEN <<DigitSeq[n + 1]>> ELSE dec(n \div 10) \o <<DigitSeq[(n % 10) + 1]>>

\* f"{track_num:02d}"
fmt_02d(n) == IF n < 10 THEN <<"0">> \o dec(n) ELSE dec(n)

MODE2 == <<"M","O","D","E","2","/","2","3","5","2">>
AUDIO == <<"A","U","D","I","O">>

\* A variant that marks every track as data
track_mode_all_data(track_num) == MODE2

\* if track_num == 1: MODE2/2352 else: AUDIO
track_mode(track_num) == IF track_num = 1 THEN MODE2 ELSE AUDIO

file_line(bin_base) == <<"F","I","L","E"," ","\"">> \o bin_base \o <<"\""," ","B","I","N","A","R","Y","\n">>
index_line == <<" "," "," "," ","I","N","D","E","X"," ","0","1"," ","0","0",":","0","0",":","0","0","\n">>

\* synthesize_cue's `lines`, joined
cue_text_of(bins) ==
    IF Len(bins) = 1
    THEN file_line(path_name(bins[1])) \o <<" "," ","T","R","A","C","K"," ","0","1"," ","M","O","D","E","2","/","2","3","5","2","\n">> \o index_line
    ELSE join([k \in 1..Len(bins) |->
                 file_line(path_name(bins[k]))
                 \o <<" "," ","T","R","A","C","K"," ">> \o fmt_02d(k) \o <<" ">> \o track_mode(k) \o <<LF>>
                 \o index_line])

\* The copies of synthesize_cue in the fresh folder: name -> path copied
\* from; a later track of the same name replaces an earlier one
copied_bins(bins) ==
    [n \in {path_name(bins[k]) : k \in 1..Len(bins)} |->
        bins[Max({k \in 1..Len(bins) : path_name(bins[k]) = n})]]

TmpDir == <<"#","t","m","p">>

\* synthesize_cue(bins, dest_dir, base_name): the returned path, the copied
\* tracks and the cue written, dest_dir being a fresh folder
synthesize_cue(bins, base) ==
    [ret  |-> <<TmpDir, base \o DOT_CUE>>,
     bins |-> copied_bins(bins),
     cues |-> [n \in {base \o DOT_CUE} |-> cue_text_of(bins)]]

no_cue == [ret |-> None, bins |-> <<>>, cues |-> <<>>]

\* A variant without the "No CUE or BIN files found" exit
build_cue_unguarded(bins, base) == synthesize_cue(bins, base)

\* locate_or_build_cue once no cue was found
build_cue(bins, base) ==
    IF bins = <<>> THEN no_cue ELSE synthesize_cue(bins, base)

locate_cue(tree, base, cues) ==
    IF cues # <<>> THEN [ret |-> cues[1], bins |-> <<>>, cues |-> <<>>]
    ELSE build_cue(find_with_depth(tree, DOT_BIN), base)

\* locate_or_build_cue(game_dir, base, tmp_root)
locate_or_build_cue(tree, base) == locate_cue(tree, base, find_with_depth(tree, DOT_CUE))

LocateOrBuildCue ==
    /\ ypc = "start"
    /\ \E r \in {locate_or_build_cue(game_files, base_name)} :
          /\ cue_ret' = r.ret
          /\ tmp_bins' = r.bins
          /\ tmp_cues' = r.cues
    /\ ypc' = "done"
    /\ UNCHANGED <<game_files, base_name>>
    /\ UNCHANGED synthFrame

\* Inputs: game folders of at most MaxTracks files out of a pool of paths
MaxTracks == 3

PathPool ==
    { <<<<"a",".","b","i","n">>>>, <<<<"b",".","b","i","n">>>>, <<<<"Z",".","b","i","n">>>>, <<<<"s","u","b">>, <<"a",".","b","i","n">>>>,
      <<<<"x">>, <<"y">>, <<"d",".","b","i","n">>>>, <<<<"g",".","c","u","e">>>>, <<<<"x">>, <<"y">>, <<"h",".","c","u","e">>>> }

GameFolders == {X \in SUBSET PathPool : Cardinality(X) <= MaxTracks}

-----------------------------------------------------------------------------
(* Grouping keys: game_key_from_stem of 03 *)

\* How many of s[i], s[i+1], ... are whitespace: \s*
WsRun(s, i) == Max({k \in 0..(Len(s) + 1 - i) : \A j \in 0..(k - 1) : IsSpace(s[i + j])})

\* How many of s[i], s[i+1], ... are digits: \d+ (0: none)
DigitsFrom(s, i) == DigitRun(s, i, Len(s) + 1 - Min({i, Len(s) + 1}))

\* c is an ASCII letter: [A-Z] under IGNORECASE
IsAlpha(c) == IsUpper(c) \/ IsLower(c)

\* \d+\]\s*$ with the digits at i; the end of the match, 0 without one
code_tail_end(s, i, nd) ==
    IF nd >= 1 /\ At(s, i + nd) = "]" /\ i + nd + WsRun(s, i + nd + 1) = Len(s)
    THEN Len(s) ELSE 0

\* -?\d+\]\s*$ at i
code_digits_end(s, i) ==
    code_tail_end(s, IF At(s, i) = "-" THEN i + 1 ELSE i,
                  DigitsFrom(s, IF At(s, i) = "-" THEN i + 1 ELSE i))

\* \[S[LC][A-Z]{2}[A-Z]?-?\d+\]\s*$ with the bracket at j
code_bracket_end(s, j) ==
    IF /\ At(s, j) = "["
       /\ ToUpper(At(s, j + 1)) = "S"
       /\ ToUpper(At(s, j + 2)) \in {"L", "C"}
       /\ IsAlpha(At(s, j + 3))
       /\ IsAlpha(At(s, j + 4))
    THEN code_digits_end(s, IF IsAlpha(At(s, j + 5)) THEN j + 6 ELSE j + 5)
    ELSE 0

\* CODE_SUFFIX_RE matched at position i: the end of the match, 0 without one
CODE_SUFFIX_RE(s, i) == code_bracket_end(s, i + WsRun(s, i))

\* [Dd][Ii][Ss][Cc] at i
disc_word(s, i) == lower(SubSeq(s, i, Min({i + 3, Len(s)}))) = <<"d","i","s","c">>

\* \d+\) with the digits at i: the end of the match, 0 without one
paren_tail_end(s, i, nd) == IF nd >= 1 /\ At(s, i + nd) = ")" THEN i + nd ELSE 0

\* \(disc\s*\d+\) with the parenthesis at j
paren_end(s, j) ==
    IF At(s, j) = "(" /\ disc_word(s, j + 1)
    THEN paren_tail_end(s, j + 5 + WsRun(s, j + 5), DigitsFrom(s, j + 5 + WsRun(s, j + 5)))
    ELSE 0

\* DISC_MARKER_REPS[0] matched at position i: (?i)\s*\(disc\s*\d+\)
PAREN_MARKER_RE(s, i) == paren_end(s, i + WsRun(s, i))

\* How many of s[i], s[i+1], ... are ' ', '_' or '-': [ _-]*
SepRun(s, i) ==
    Max({k \in 0..(Len(s) + 1 - i) : \A j \in 0..(k - 1) : s[i + j] \in {" ", "_", "-"}})

\* \d+ with the digits at i: the end of the match, 0 without one
bare_tail_end(i, nd) == IF nd >= 1 THEN i + nd - 1 ELSE 0

\* \s*\d+ at i
bare_number_end(s, i) == bare_tail_end(i + WsRun(s, i), DigitsFrom(s, i + WsRun(s, i)))

\* disc[_-]?\s*\d+ with the word at j
bare_end(s, j) ==
    IF disc_word(s, j)
    THEN bare_number_end(s, IF At(s, j + 4) \in {"_", "-"} THEN j + 5 ELSE j + 4)
    ELSE 0

\* DISC_MARKER_REPS[1] matched at position i: (?i)[ _-]*disc[_-]?\s*\d+
BARE_MARKER_RE(s, i) == bare_end(s, i + SepRun(s, i))

\* The pattern of DISC_MARKER_REPS[k - 1] matched at position i
marker_end(k, s, i) == IF k = 1 THEN PAREN_MARKER_RE(s, i) ELSE BARE_MARKER_RE(s, i)

RECURSIVE sub_code(_, _)
\* CODE_SUFFIX_RE.sub("", text), from position i on
sub_code(s, i) ==
    IF i > Len(s) THEN <<>>
    ELSE IF CODE_SUFFIX_RE(s, i) # 0 THEN sub_code(s, CODE_SUFFIX_RE(s, i) + 1)
    ELSE <<s[i]>> \o sub_code(s, i + 1)

\* strip_code(text)
strip_code(text) == sub_code(text, 1)

RECURSIVE sub_marker(_, _, _)
\* pattern.sub("", text) for the pattern of DISC_MARKER_REPS[k - 1], from
\* position i on
sub_marker(k, s, i) ==
    IF i > Len(s) THEN <<>>
    ELSE IF marker_end(k, s, i) # 0 THEN sub_marker(k, s, marker_end(k, s, i) + 1)
    ELSE <<s[i]>> \o sub_marker(k, s, i + 1)

\* strip_disc_markers(text): both patterns, in order
strip_disc_markers(text) == sub_marker(2, sub_marker(1, text, 1), 1)

RECURSIVE collapse_ws(_)
\* re.sub(r"\s+", " ", text)
collapse_ws(s) ==
    IF s = <<>> THEN <<>>
    ELSE IF IsSpace(Head(s)) THEN <<" ">> \o collapse_ws(SubSeq(s, 1 + WsRun(s, 1), Len(s)))
    ELSE <<Head(s)>> \o collapse_ws(Tail(s))

\* normalize_title(text)
normalize_title(text) == strip(collapse_ws(ReplaceChar(text, "_", <<" ">>)))

\* A variant that keeps the code suffix
game_key_keep_code(stem_text) ==
    [key     |-> lower(normalize_title(strip_disc_markers(stem_text))),
     display |-> normalize_title(strip_disc_markers(stem_text))]

\* game_key_from_stem(stem): (key, display_name)
game_key_from_stem(stem_text) ==
    [key     |-> lower(normalize_title(strip_disc_markers(strip_code(stem_text)))),
     display |-> normalize_title(strip_disc_markers(strip_code(stem_text)))]

\* The stem of a disc: title, disc marker written in one of the forms
\* below with the disc number, bracketed code suffix
marker_text(form, number) ==
    CASE form = "(Disc N)"   -> <<" ","(","D","i","s","c"," ">> \o number \o <<")">>
      [] form = "(discN)"    -> <<"(","d","i","s","c">> \o number \o <<")">>
      [] form = "(DISC  N)"  -> <<" "," ","(","D","I","S","C"," "," ">> \o number \o <<")">>
      [] form = "(Disc N )"  -> <<" ","(","D","i","s","c"," ">> \o number \o <<" ",")">>
      [] form = " Disc N"    -> <<" ","D","i","s","c"," ">> \o number
      [] form = "_DiscN"     -> <<"_","D","i","s","c">> \o number
      [] form = "-disc_N"    -> <<"-","d","i","s","c","_">> \o number
      [] form = " - Disc-N"  -> <<" ","-"," ","D","i","s","c","-">> \o number
      [] OTHER               -> <<>>

code_suffix(product) == IF product = <<>> THEN <<>> ELSE <<" ","[">> \o product \o <<"]">>

disc_stem(d) == d.title \o marker_text(d.form, d.number) \o d.after \o code_suffix(d.product)

DeriveKeys ==
    /\ kpc = "start"
    /\ key_a' = game_key_from_stem(disc_stem(disc_a)).key
    /\ key_b' = game_key_from_stem(disc_stem(disc_b)).key
    /\ kpc' = "done"
    /\ UNCHANGED <<disc_a, disc_b>>
    /\ UNCHANGED keyFrame

\* Inputs: two discs of one title; marker forms, disc numbers and product
\* codes of the PS1 family (the codes 02 writes, and spellings of them)
KeyTitles == { <<"G","a","m","e">>, <<"M","y","_","G","a","m","e"," ","2">>, <<"D","i","s","c">>, <<"M","i","x","-">> }
MarkerForms == { "(Disc N)", "(discN)", "(DISC  N)", "(Disc N )", " Disc N", "_DiscN", "-disc_N", " - Disc-N" }
DiscNumbers == { <<"1">>, <<"2">>, <<"1","0">> }
Afters == { <<>>, <<" ","(","U","S","A",")">> }
ProductCodes == { <<"S","L","U","S","-","1","2","3">>, <<"S","C","E","S","-","0","0","5","9","4">>, <<"s","l","p","s","x","-","1","2","3","4","5","6","7">>, <<"S","L","U","S","0","0","5","9","4">> }

Discs == [title : KeyTitles, form : MarkerForms, number : DiscNumbers, after : Afters,
          product : ProductCodes \cup {<<>>}]

-----------------------------------------------------------------------------
(* Batches: main of 03 over the games of a directory, process_archives
   and process_existing_cues of 01 over the archives or cues of one.
   The external tools (7z, chdman) are found before the batch starts; each
   run of one ends well or with a non-zero exit, and a failed run leaves
   nothing behind. *)

\* The names of the files directly in the root folder
root_names(tree) == {p[1] : p \in {q \in tree : Len(q) = 1}}

\* sorted(root.glob("*<sfx>"))
glob_sorted(tree, sfx) == sorted({n \in root_names(tree) : ends_with(n, sfx)})

\* games[key] = (display, set()) if key is new; games[key][1].update({cue, bin_path})
games_update(games_map, k, shown, cue, bin_path) ==
    [g \in DOMAIN games_map \cup {k} |->
        IF g # k THEN games_map[g]
        ELSE IF k \in DOMAIN games_map
             THEN [display |-> games_map[k].display,
                   files   |-> games_map[k].files \cup {cue, bin_path}]
             ELSE [display |-> shown, files |-> {cue, bin_path}]]

\* A variant that groups a cue whatever its key
collect_one_any_key(games_map, names, cue, derived) ==
    IF with_suffix(cue, DOT_BIN) \notin names THEN games_map
    ELSE games_update(games_map, derived.key, derived.display, cue, with_suffix(cue, DOT_BIN))

\* The body of collect_games's loop for one cue, its key derived
collect_one(games_map, names, cue, derived) ==
    IF with_suffix(cue, DOT_BIN) \notin names THEN games_map
    ELSE IF derived.key = <<>> THEN games_map
    ELSE games_update(games_map, derived.key, derived.display, cue, with_suffix(cue, DOT_BIN))

RECURSIVE collect_from(_, _, _, _)
collect_from(games_map, names, cues, k) ==
    IF k > Len(cues) THEN games_map
    ELSE collect_from(collect_one(games_map, names, cues[k],
                                  game_key_from_stem(path_stem(cues[k]))),
                      names, cues, k + 1)

\* collect_games(root)
collect_games(tree) == collect_from(<<>>, root_names(tree), glob_sorted(tree, DOT_CUE), 1)

\* ILLEGAL_FS_CHARS_RE
ILLEGAL_FS_CHARS == {"\\", "/", ":", "*", "?", "\"", "<", ">", "|"}

RECURSIVE rstrip_dots(_)
\* str.rstrip(".")
rstrip_dots(s) ==
    IF s # <<>> /\ s[Len(s)] = "." THEN rstrip_dots(SubSeq(s, 1, Len(s) - 1)) ELSE s

or_archive(s) == IF s = <<>> THEN <<"a","r","c","h","i","v","e">> ELSE s

\* sanitize_filename(name)
sanitize_filename(name) ==
    or_archive(strip(rstrip_dots([i \in 1..Len(name) |->
        IF name[i] \in ILLEGAL_FS_CHARS THEN "_" ELSE name[i]])))

DOT_7Z == <<".","7","z">>

\* build_archive's archive_name
archive_name(shown) == sanitize_filename(shown) \o DOT_7Z

\* A variant that removes the existing archive before it looks at dry_run
build_archive_unlink_first(tree, shown, overwrite, dry) ==
    IF <<archive_name(shown)>> \in tree /\ ~overwrite THEN [run |-> FALSE, tree |-> tree]
    ELSE [run |-> ~dry, tree |-> tree \ {<<archive_name(shown)>>}]

\* build_archive(...): what it does before 7z is run. run: whether 7z is
\* run; tree: the root folder by then
build_archive(tree, shown, overwrite, dry) ==
    IF <<archive_name(shown)>> \in tree /\ ~overwrite THEN [run |-> FALSE, tree |-> tree]
    ELSE IF dry THEN [run |-> FALSE, tree |-> tree]
    ELSE [run |-> TRUE, tree |-> tree \ {<<archive_name(shown)>>}]

\* The exit status of a failed tool run
FailCodes == {1, 2}

\* main of 03 up to its loop
PackStart ==
    /\ tool = "pack"
    /\ bpc = "start"
    /\ \E g \in {collect_games(root_tree)} :
          /\ games' = g
          /\ units' = sorted(DOMAIN g)
          /\ IF DOMAIN g = {}
             THEN bpc' = "done" /\ exit_code' = 0
             ELSE bpc' = "games" /\ UNCHANGED exit_code
    /\ bidx' = 1
    /\ UNCHANGED <<root_tree, archive_trees, opt_overwrite, opt_dry_run, visited>>
    /\ UNCHANGED batchFrame

\* One pass of main's loop: build_archive, and the except clause
PackStep ==
    /\ tool = "pack"
    /\ bpc = "games"
    /\ bidx <= Len(units)
    /\ visited' = visited \cup {bidx}
    /\ \E b \in {build_archive(root_tree, games[units[bidx]].display, opt_overwrite, opt_dry_run)} :
          \/ /\ ~b.run
             /\ root_tree' = b.tree
             /\ bidx' = bidx + 1
             /\ UNCHANGED <<bpc, exit_code>>
          \/ /\ b.run
             /\ root_tree' = b.tree \cup {<<archive_name(games[units[bidx]].display)>>}
             /\ bidx' = bidx + 1
             /\ UNCHANGED <<bpc, exit_code>>
          \/ /\ b.run
             /\ \E status \in FailCodes : exit_code' = status
             /\ root_tree' = b.tree
             /\ bpc' = "done"
             /\ UNCHANGED bidx
    /\ UNCHANGED <<archive_trees, opt_overwrite, opt_dry_run, games, units>>
    /\ UNCHANGED batchFrame

\* After the loop: return 0
PackEnd ==
    /\ tool = "pack"
    /\ bpc = "games"
    /\ bidx > Len(units)
    /\ bpc' = "done"
    /\ exit_code' = 0
    /\ UNCHANGED <<root_tree, archive_trees, opt_overwrite, opt_dry_run, games, units, bidx, visited>>
    /\ UNCHANGED batchFrame

OUT_DIR == <<"S","i","n","g","l","e","T","r","a","c","k","D","i","s","c","I","m","a","g","e","s">>

\* out_dir in p.parents or str(out_dir) in str(p.parent), for a path of at
\* most two parts below the root
under_out_dir(p) == Len(p) = 2 /\ starts_with(p[1], OUT_DIR)

RECURSIVE outside_out_dir(_)
\* [p for p in paths if out_dir not in p.parents and str(out_dir) not in str(p.parent)]
outside_out_dir(paths) ==
    IF paths = <<>> THEN <<>>
    ELSE (IF under_out_dir(Head(paths)) THEN <<>> ELSE <<Head(paths)>>)
         \o outside_out_dir(Tail(paths))

\* process_existing_cues's `cues`
existing_cues(tree) == outside_out_dir(find_with_depth(tree, DOT_CUE))

\* game_dir.is_dir()
is_dir(tree, base) == \E p \in tree : Len(p) >= 2 /\ p[1] = base

\* The files of the folder `base` of the root, relative to it
subtree(tree, base) == {Tail(p) : p \in {q \in tree : Len(q) >= 2 /\ q[1] = base}}

\* 7z x -o<game_dir> <archive>
extracted(tree, base, members) == tree \cup {<<base>> \o p : p \in members}

out_files(base) == {<<OUT_DIR, base \o DOT_CUE>>, <<OUT_DIR, base \o DOT_BIN>>}

\* process_archives and process_existing_cues up to their loops
SingleStart ==
    /\ tool = "single"
    /\ bpc = "start"
    /\ IF glob_sorted(root_tree, DOT_7Z) # <<>>
       THEN /\ units' = glob_sorted(root_tree, DOT_7Z)
            /\ bpc' = "archives"
            /\ UNCHANGED exit_code
       ELSE /\ units' = existing_cues(root_tree)
            /\ IF existing_cues(root_tree) = <<>>
               THEN bpc' = "done" /\ exit_code' = 0
               ELSE bpc' = "cues" /\ UNCHANGED exit_code
    /\ bidx' = 1
    /\ UNCHANGED <<root_tree, archive_trees, opt_overwrite, opt_dry_run, games, visited>>
    /\ UNCHANGED batchFrame

\* process_disc(base, ...) on the root folder `tree`: the old outputs are
\* removed, chdman runs twice; a failed run raises CalledProcessError, which
\* nothing catches
ProcessDisc(tree, base) ==
    \/ /\ root_tree' = (tree \ out_files(base)) \cup out_files(base)
       /\ bidx' = bidx + 1
       /\ UNCHANGED <<bpc, exit_code>>
    \/ /\ root_tree' = tree \ out_files(base)
       /\ bpc' = "done"
       /\ exit_code' = 1
       /\ UNCHANGED bidx

\* One pass of process_archives's loop
ArchiveStep ==
    /\ tool = "single"
    /\ bpc = "archives"
    /\ bidx <= Len(units)
    /\ visited' = visited \cup {bidx}
    /\ \E base \in {path_stem(units[bidx])} :
          \/ /\ ~is_dir(root_tree, base)
             /\ root_tree' = root_tree
             /\ bpc' = "done"
             /\ exit_code' = 1
             /\ UNCHANGED bidx
          \/ \E tree \in {IF is_dir(root_tree, base) THEN root_tree
                          ELSE extracted(root_tree, base, archive_trees[units[bidx]])} :
                IF locate_or_build_cue(subtree(tree, base), base).ret = None
                THEN /\ root_tree' = tree
                     /\ bidx' = bidx + 1
                     /\ UNCHANGED <<bpc, exit_code>>
                ELSE ProcessDisc(tree, base)
    /\ UNCHANGED <<archive_trees, opt_overwrite, opt_dry_run, games, units>>
    /\ UNCHANGED batchFrame

\* One pass of process_existing_cues's loop
CueStep ==
    /\ tool = "single"
    /\ bpc = "cues"
    /\ bidx <= Len(units)
    /\ visited' = visited \cup {bidx}
    /\ ProcessDisc(root_tree, path_stem(path_name(units[bidx])))
    /\ UNCHANGED <<archive_trees, opt_overwrite, opt_dry_run, games, units>>
    /\ UNCHANGED batchFrame

\* After either loop: "Done.", main returns 0
SingleEnd ==
    /\ tool = "single"
    /\ bpc \in {"archives", "cues"}
    /\ bidx > Len(units)
    /\ bpc' = "done"
    /\ exit_code' = 0
    /\ UNCHANGED <<root_tree, archive_trees, opt_overwrite, opt_dry_run, games, units, bidx, visited>>
    /\ UNCHANGED batchFrame

\* Inputs. 03: pairs of a cue and its bin, a cue without bin, archives of an
\* earlier run. 01: archives, an extracted folder, cues, outputs of an
\* earlier run.
PairStems == { <<"G","a","m","e"," ","(","D","i","s","c"," ","1",")"," ","[","S","L","U","S","-","1","2","3","]">>, <<"G","a","m","e"," ","(","D","i","s","c"," ","2",")"," ","[","S","L","U","S","-","4","5","6","]">>, <<"O","t","h","e","r">>, <<"(","D","i","s","c"," ","1",")">>,
               <<"D","i","s","c","_","2"," ","[","S","L","U","S","-","1","2","3","]">> }
PackExtras == { <<<<"L","o","n","e",".","c","u","e">>>>, <<<<"G","a","m","e",".","7","z">>>>, <<<<"O","t","h","e","r",".","7","z">>>> }

PackRoots ==
    { UNION {{<<s \o DOT_CUE>>, <<s \o DOT_BIN>>} : s \in S} \cup X :
        S \in SUBSET PairStems, X \in SUBSET PackExtras }

SinglePool ==
    { <<<<"A",".","7","z">>>>, <<<<"B",".","7","z">>>>, <<<<"A">>, <<"a",".","c","u","e">>>>, <<<<"c",".","c","u","e">>>>, <<<<"s","u","b">>, <<"d",".","c","u","e">>>>,
      <<OUT_DIR, <<"c",".","c","u","e">>>> }

ArchiveTrees == { {}, {<<<<"t",".","c","u","e">>>>}, {<<<<"t","1",".","b","i","n">>>>, <<<<"s","u","b">>, <<"t","2",".","b","i","n">>>>} }

Roots(t) == IF t = "pack" THEN PackRoots ELSE SUBSET SinglePool

\* What 7z x would extract from each archive of the root
ArchiveContents(t, tree) ==
    IF t = "pack" THEN {<<>>}
    ELSE [{n \in root_names(tree) : ends_with(n, DOT_7Z)} -> ArchiveTrees]

Flags(t) == IF t = "pack" THEN BOOLEAN ELSE {FALSE}

-----------------------------------------------------------------------------
(* Specifications: one per program part, the other parts idle *)

InitName ==
    /\ tool \in {"ps1", "ps2"}
    /\ stem \in Stems
    /\ content \in Contents
    /\ raw = None
    /\ code = None
    /\ new_stem = None
    /\ code2 = None
    /\ new_stem2 = None
    /\ npc = "start"
    /\ cue_src = <<>>
    /\ cue_text = <<>>
    /\ new_bin_name = <<>>
    /\ changed = FALSE
    /\ cpc = "idle"
    /\ fs = <<>>
    /\ dry_run = FALSE
    /\ files = <<>>
    /\ idx = 0
    /\ work_items = <<>>
    /\ tpc = "idle"
    /\ stream = <<>>
    /\ tok = <<>>
    /\ tok_pos = 0
    /\ scanned = 0
    /\ result = <<>>
    /\ spc = "idle"
    /\ game_files = {}
    /\ base_name = <<>>
    /\ cue_ret = <<>>
    /\ tmp_bins = <<>>
    /\ tmp_cues = <<>>
    /\ ypc = "idle"
    /\ disc_a = <<>>
    /\ disc_b = <<>>
    /\ key_a = <<>>
    /\ key_b = <<>>
    /\ kpc = "idle"
    /\ root_tree = {}
    /\ archive_trees = <<>>
    /\ opt_overwrite = FALSE
    /\ opt_dry_run = FALSE
    /\ games = <<>>
    /\ units = <<>>
    /\ bidx = 0
    /\ visited = {}
    /\ exit_code = -1
    /\ bpc = "idle"

NextName ==
    \/ Plan
    \/ Replan

SpecName == InitName /\ [][NextName]_vars

InitCue ==
    /\ tool \in {"ps1"}
    /\ cue_src \in UNION {[1..n -> CueLines] : n \in 1..MaxCueLines}
    /\ cue_text = render_cue(cue_src)
    /\ new_bin_name = NewBin
    /\ changed = FALSE
    /\ cpc = "start"
    /\ stem = <<>>
    /\ content = <<>>
    /\ raw = <<>>
    /\ code = <<>>
    /\ new_stem = <<>>
    /\ code2 = <<>>
    /\ new_stem2 = <<>>
    /\ npc = "idle"
    /\ fs = <<>>
    /\ dry_run = FALSE
    /\ files = <<>>
    /\ idx = 0
    /\ work_items = <<>>
    /\ tpc = "idle"
    /\ stream = <<>>
    /\ tok = <<>>
    /\ tok_pos = 0
    /\ scanned = 0
    /\ result = <<>>
    /\ spc = "idle"
    /\ game_files = {}
    /\ base_name = <<>>
    /\ cue_ret = <<>>
    /\ tmp_bins = <<>>
    /\ tmp_cues = <<>>
    /\ ypc = "idle"
    /\ disc_a = <<>>
    /\ disc_b = <<>>
    /\ key_a = <<>>
    /\ key_b = <<>>
    /\ kpc = "idle"
    /\ root_tree = {}
    /\ archive_trees = <<>>
    /\ opt_overwrite = FALSE
    /\ opt_dry_run = FALSE
    /\ games = <<>>
    /\ units = <<>>
    /\ bidx = 0
    /\ visited = {}
    /\ exit_code = -1
    /\ bpc = "idle"

NextCue ==
    \/ UpdateCueFile

SpecCue == InitCue /\ [][NextCue]_vars

Init ==
    /\ tool \in {"ps1", "ps2"}
    /\ fs \in Directories(tool)
    /\ dry_run \in BOOLEAN
    /\ files = <<>>
    /\ idx = 0
    /\ work_items = <<>>
    /\ tpc = "start"
    /\ stem = <<>>
    /\ content = <<>>
    /\ raw = <<>>
    /\ code = <<>>
    /\ new_stem = <<>>
    /\ code2 = <<>>
    /\ new_stem2 = <<>>
    /\ npc = "idle"
    /\ cue_src = <<>>
    /\ cue_text = <<>>
    /\ new_bin_name = <<>>
    /\ changed = FALSE
    /\ cpc = "idle"
    /\ stream = <<>>
    /\ tok = <<>>
    /\ tok_pos = 0
    /\ scanned = 0
    /\ result = <<>>
    /\ spc = "idle"
    /\ game_files = {}
    /\ base_name = <<>>
    /\ cue_ret = <<>>
    /\ tmp_bins = <<>>
    /\ tmp_cues = <<>>
    /\ ypc = "idle"
    /\ disc_a = <<>>
    /\ disc_b = <<>>
    /\ key_a = <<>>
    /\ key_b = <<>>
    /\ kpc = "idle"
    /\ root_tree = {}
    /\ archive_trees = <<>>
    /\ opt_overwrite = FALSE
    /\ opt_dry_run = FALSE
    /\ games = <<>>
    /\ units = <<>>
    /\ bidx = 0
    /\ visited = {}
    /\ exit_code = -1
    /\ bpc = "idle"

Next ==
    \/ TagStart
    \/ PlanStep
    \/ PlanEnd
    \/ RenameStep
    \/ RenameEnd

Spec == Init /\ [][Next]_vars

InitScan ==
    /\ tool \in {"ps1", "ps2"}
    /\ tok \in ScanTokens
    /\ tok_pos \in 0..(MAX_SCAN + READ_CHUNK)
    /\ stream \in {Pad(tok_pos) \o tok \o Pad(n) : n \in {0, READ_CHUNK}}
    /\ scanned = 0
    /\ result = None
    /\ spc = "read"
    /\ stem = <<>>
    /\ content = <<>>
    /\ raw = <<>>
    /\ code = <<>>
    /\ new_stem = <<>>
    /\ code2 = <<>>
    /\ new_stem2 = <<>>
    /\ npc = "idle"
    /\ cue_src = <<>>
    /\ cue_text = <<>>
    /\ new_bin_name = <<>>
    /\ changed = FALSE
    /\ cpc = "idle"
    /\ fs = <<>>
    /\ dry_run = FALSE
    /\ files = <<>>
    /\ idx = 0
    /\ work_items = <<>>
    /\ tpc = "idle"
    /\ game_files = {}
    /\ base_name = <<>>
    /\ cue_ret = <<>>
    /\ tmp_bins = <<>>
    /\ tmp_cues = <<>>
    /\ ypc = "idle"
    /\ disc_a = <<>>
    /\ disc_b = <<>>
    /\ key_a = <<>>
    /\ key_b = <<>>
    /\ kpc = "idle"
    /\ root_tree = {}
    /\ archive_trees = <<>>
    /\ opt_overwrite = FALSE
    /\ opt_dry_run = FALSE
    /\ games = <<>>
    /\ units = <<>>
    /\ bidx = 0
    /\ visited = {}
    /\ exit_code = -1
    /\ bpc = "idle"

NextScan ==
    \/ ScanStep

SpecScan == InitScan /\ [][NextScan]_vars

InitSynth ==
    /\ tool \in {"single"}
    /\ game_files \in GameFolders
    /\ base_name \in {Title, Title \o <<" ">> \o CodeTag}
    /\ cue_ret = None
    /\ tmp_bins = <<>>
    /\ tmp_cues = <<>>
    /\ ypc = "start"
    /\ stem = <<>>
    /\ content = <<>>
    /\ raw = <<>>
    /\ code = <<>>
    /\ new_stem = <<>>
    /\ code2 = <<>>
    /\ new_stem2 = <<>>
    /\ npc = "idle"
    /\ cue_src = <<>>
    /\ cue_text = <<>>
    /\ new_bin_name = <<>>
    /\ changed = FALSE
    /\ cpc = "idle"
    /\ fs = <<>>
    /\ dry_run = FALSE
    /\ files = <<>>
    /\ idx = 0
    /\ work_items = <<>>
    /\ tpc = "idle"
    /\ stream = <<>>
    /\ tok = <<>>
    /\ tok_pos = 0
    /\ scanned = 0
    /\ result = <<>>
    /\ spc = "idle"
    /\ disc_a = <<>>
    /\ disc_b = <<>>
    /\ key_a = <<>>
    /\ key_b = <<>>
    /\ kpc = "idle"
    /\ root_tree = {}
    /\ archive_trees = <<>>
    /\ opt_overwrite = FALSE
    /\ opt_dry_run = FALSE
    /\ games = <<>>
    /\ units = <<>>
    /\ bidx = 0
    /\ visited = {}
    /\ exit_code = -1
    /\ bpc = "idle"

NextSynth ==
    \/ LocateOrBuildCue

SpecSynth == InitSynth /\ [][NextSynth]_vars

InitKey ==
    /\ tool \in {"pack"}
    /\ disc_a \in Discs
    /\ disc_b \in {d \in Discs : d.title = disc_a.title /\ d.form = disc_a.form /\ d.after = disc_a.after /\ (d.product = <<>>) = (disc_a.product = <<>>)}
    /\ key_a = <<>>
    /\ key_b = <<>>
    /\ kpc = "start"
    /\ stem = <<>>
    /\ content = <<>>
    /\ raw = <<>>
    /\ code = <<>>
    /\ new_stem = <<>>
    /\ code2 = <<>>
    /\ new_stem2 = <<>>
    /\ npc = "idle"
    /\ cue_src = <<>>
    /\ cue_text = <<>>
    /\ new_bin_name = <<>>
    /\ changed = FALSE
    /\ cpc = "idle"
    /\ fs = <<>>
    /\ dry_run = FALSE
    /\ files = <<>>
    /\ idx = 0
    /\ work_items = <<>>
    /\ tpc = "idle"
    /\ stream = <<>>
    /\ tok = <<>>
    /\ tok_pos = 0
    /\ scanned = 0
    /\ result = <<>>
    /\ spc = "idle"
    /\ game_files = {}
    /\ base_name = <<>>
    /\ cue_ret = <<>>
    /\ tmp_bins = <<>>
    /\ tmp_cues = <<>>
    /\ ypc = "idle"
    /\ root_tree = {}
    /\ archive_trees = <<>>
    /\ opt_overwrite = FALSE
    /\ opt_dry_run = FALSE
    /\ games = <<>>
    /\ units = <<>>
    /\ bidx = 0
    /\ visited = {}
    /\ exit_code = -1
    /\ bpc = "idle"

NextKey ==
    \/ DeriveKeys

SpecKey == InitKey /\ [][NextKey]_vars

InitBatch ==
    /\ tool \in {"pack", "single"}
    /\ root_tree \in Roots(tool)
    /\ archive_trees \in ArchiveContents(tool, root_tree)
    /\ opt_overwrite \in Flags(tool)
    /\ opt_dry_run \in Flags(tool)
    /\ games = <<>>
    /\ units = <<>>
    /\ bidx = 0
    /\ visited = {}
    /\ exit_code = -1
    /\ bpc = "start"
    /\ stem = <<>>
    /\ content = <<>>
    /\ raw = <<>>
    /\ code = <<>>
    /\ new_stem = <<>>
    /\ code2 = <<>>
    /\ new_stem2 = <<>>
    /\ npc = "idle"
    /\ cue_src = <<>>
    /\ cue_text = <<>>
    /\ new_bin_name = <<>>
    /\ changed = FALSE
    /\ cpc = "idle"
    /\ fs = <<>>
    /\ dry_run = FALSE
    /\ files = <<>>
    /\ idx = 0
    /\ work_items = <<>>
    /\ tpc = "idle"
    /\ stream = <<>>
    /\ tok = <<>>
    /\ tok_pos = 0
    /\ scanned = 0
    /\ result = <<>>
    /\ spc = "idle"
    /\ game_files = {}
    /\ base_name = <<>>
    /\ cue_ret = <<>>
    /\ tmp_bins = <<>>
    /\ tmp_cues = <<>>
    /\ ypc = "idle"
    /\ disc_a = <<>>
    /\ disc_b = <<>>
    /\ key_a = <<>>
    /\ key_b = <<>>
    /\ kpc = "idle"

NextBatch ==
    \/ PackStart
    \/ PackStep
    \/ PackEnd
    \/ SingleStart
    \/ ArchiveStep
    \/ CueStep
    \/ SingleEnd

SpecBatch == InitBatch /\ [][NextBatch]_vars

InitDry ==
    /\ tool \in {"ps1", "ps2", "pack"}
    /\ fs \in (IF tool = "pack" THEN {<<>>} ELSE Directories(tool))
    /\ dry_run \in (IF tool = "pack" THEN {FALSE} ELSE BOOLEAN)
    /\ files = <<>>
    /\ idx = 0
    /\ work_items = <<>>
    /\ tpc = (IF tool = "pack" THEN "idle" ELSE "start")
    /\ root_tree \in (IF tool = "pack" THEN PackRoots ELSE {{}})
    /\ archive_trees = <<>>
    /\ opt_overwrite \in (IF tool = "pack" THEN BOOLEAN ELSE {FALSE})
    /\ opt_dry_run \in (IF tool = "pack" THEN BOOLEAN ELSE {FALSE})
    /\ games = <<>>
    /\ units = <<>>
    /\ bidx = 0
    /\ visited = {}
    /\ exit_code = -1
    /\ bpc = (IF tool = "pack" THEN "start" ELSE "idle")
    /\ stem = <<>>
    /\ content = <<>>
    /\ raw = <<>>
    /\ code = <<>>
    /\ new_stem = <<>>
    /\ code2 = <<>>
    /\ new_stem2 = <<>>
    /\ npc = "idle"
    /\ cue_src = <<>>
    /\ cue_text = <<>>
    /\ new_bin_name = <<>>
    /\ changed = FALSE
    /\ cpc = "idle"
    /\ stream = <<>>
    /\ tok = <<>>
    /\ tok_pos = 0
    /\ scanned = 0
    /\ result = <<>>
    /\ spc = "idle"
    /\ game_files = {}
    /\ base_name = <<>>
    /\ cue_ret = <<>>
    /\ tmp_bins = <<>>
    /\ tmp_cues = <<>>
    /\ ypc = "idle"
    /\ disc_a = <<>>
    /\ disc_b = <<>>
    /\ key_a = <<>>
    /\ key_b = <<>>
    /\ kpc = "idle"

NextDry ==
    \/ TagStart
    \/ PlanStep
    \/ PlanEnd
    \/ RenameStep
    \/ RenameEnd
    \/ PackStart
    \/ PackStep
    \/ PackEnd

SpecDry == InitDry /\ [][NextDry]_vars

-----------------------------------------------------------------------------
(* Claims *)

Count(s, c) == Cardinality({i \in 1..Len(s) : s[i] = c})

\* C10: the normalized form of every token matched by the name pattern or the
\* byte pattern of either tagger has exactly one '-', no '_', no '.', no
\* lowercase letter, and normalizing it again changes nothing.
C10_CanonicalForm ==
    raw # None =>
        LET c == normalize_code(tool, raw)
        IN  /\ Count(c, "-") = 1
            /\ Count(c, "_") = 0
            /\ Count(c, ".") = 0
            /\ \A i \in 1..Len(c) : ~IsLower(c[i])
            /\ normalize_code(tool, c) = c
            /\ code = c

\* A lowercase, underscored, dotted token of a name has been normalized
C10_Witness ==
    /\ npc = "planned"
    /\ \E i \in 1..Len(raw) : IsLower(raw[i])
    /\ Count(raw, "_") = 1
    /\ Count(raw, ".") = 1

\* C1 (as claimed): after composing, extraction from the new stem and
\* normalization give the code composed with, and composing again leaves the
\* stem as it is.
C1_RoundTrip ==
    npc = "replanned" => (code2 = code /\ new_stem2 = new_stem)

\* The line the claim asks for: FILE "<new bin name>", the original trailing
\* tokens, the original line ending; any other line as it was
expected_line(l, name) ==
    IF l.kind = "file"
    THEN FILE_WORD \o <<" ", QUOTE>> \o name \o <<QUOTE>>
         \o (IF l.trail # <<>> THEN <<" ">> \o l.trail ELSE <<>>) \o l.eol
    ELSE render_line(l)

\* C3 (as claimed): after update_cue_file every FILE line reads FILE "<new
\* bin name>" followed by its original trailing tokens and its original line
\* ending, and every other line is unchanged.
C3_Retarget ==
    cpc = "done" =>
        cue_text = join([i \in 1..Len(cue_src) |-> expected_line(cue_src[i], new_bin_name)])

\* C2 (as claimed): whenever the rename loop is about to rename old -> new
\* with new # old, no file named new exists, be it there from before the run
\* or from an earlier rename of the run (the same for the cue of the pair).
C2_NoOverwrite ==
    (tpc = "rename" /\ idx <= Len(work_items)) =>
        /\ work_items[idx].new # work_items[idx].old
              => work_items[idx].new \notin DOMAIN fs
        /\ (work_items[idx].cue # None /\ work_items[idx].new_cue # work_items[idx].cue)
              => work_items[idx].new_cue \notin DOMAIN fs

\* A token that matches the byte pattern of the tool as a whole
IsToken(t, k) == k # <<>> /\ ID_BYTES_RE(t, k) = <<1, Len(k)>>

\* The token of the stream starts in one chunk and ends in a later one
Straddles == tok # <<>> /\ (tok_pos \div READ_CHUNK) # ((tok_pos + Len(tok) - 1) \div READ_CHUNK)

\* C6 (as claimed): when the only token of the stream starts in one read chunk
\* and ends in the next, find_disc_code returns None.
C6_SplitTokenMissed ==
    (spc = "done" /\ IsToken(tool, tok) /\ Straddles /\ tok_pos < MAX_SCAN) => result = None

\* C7: find_disc_code never reads a byte at or beyond MAX_SCAN, and returns
\* None for every stream whose first MAX_SCAN bytes hold no match of the byte
\* pattern, also when a token lies at or beyond the cap.
C7_ByteCap ==
    /\ scanned <= MAX_SCAN
    /\ (spc = "done" /\ ID_BYTES_RE(tool, SubSeq(stream, 1, Min({MAX_SCAN, Len(stream)})))[1] = 0)
          => result = None

\* A stream with a token at or beyond the cap has been scanned up to the cap
C7_Witness ==
    /\ spc = "done"
    /\ IsToken(tool, tok)
    /\ tok_pos >= MAX_SCAN
    /\ scanned = MAX_SCAN
    /\ result = None

\* C4: for a game folder in which no cue and no track is found, no cue file
\* is written and no cue path is returned: the no-tracks exit is taken before
\* synthesize_cue is entered.
C4_NoTracksNoCue ==
    (/\ ypc = "done"
     /\ find_with_depth(game_files, DOT_CUE) = <<>>
     /\ find_with_depth(game_files, DOT_BIN) = <<>>)
        => (cue_ret = None /\ DOMAIN tmp_cues = {} /\ DOMAIN tmp_bins = {})

\* A folder that holds files, but no cue and no track within depth 2, was skipped
C4_Witness ==
    /\ ypc = "done"
    /\ game_files # {}
    /\ find_with_depth(game_files, DOT_CUE) = <<>>
    /\ find_with_depth(game_files, DOT_BIN) = <<>>
    /\ cue_ret = None

\* The lines of a text, without their line breaks
lines_of(text) ==
    [i \in 1..Len(splitlines_keepends(text)) |->
        SubSeq(splitlines_keepends(text)[i], 1, Len(splitlines_keepends(text)[i]) - 1)]

RECURSIVE dec_value(_)
\* The number a sequence of digits writes
dec_value(d) ==
    IF d = <<>> THEN 0
    ELSE 10 * dec_value(SubSeq(d, 1, Len(d) - 1))
         + ((CHOOSE i \in DOMAIN DigitSeq : DigitSeq[i] = d[Len(d)]) - 1)

\* Reading the k-th track descriptor of a cue: FILE "<name>" BINARY,
\* TRACK <number> <mode>, INDEX 01 <time>
desc_file(ls, k) == SubSeq(ls[3 * k - 2], 7, Len(ls[3 * k - 2]) - 8)
desc_number(ls, k) == dec_value(SubSeq(ls[3 * k - 1], 9, 8 + DigitRun(ls[3 * k - 1], 9, Len(ls[3 * k - 1]))))
desc_mode(ls, k) == SubSeq(ls[3 * k - 1], 10 + DigitRun(ls[3 * k - 1], 9, Len(ls[3 * k - 1])), Len(ls[3 * k - 1]))
desc_index(ls, k) == SubSeq(ls[3 * k], 14, Len(ls[3 * k]))

well_formed(ls, k) ==
    /\ starts_with(ls[3 * k - 2], <<"F","I","L","E"," ","\"">>) /\ ends_with(ls[3 * k - 2], <<"\""," ","B","I","N","A","R","Y">>)
    /\ starts_with(ls[3 * k - 1], <<" "," ","T","R","A","C","K"," ">>) /\ DigitRun(ls[3 * k - 1], 9, Len(ls[3 * k - 1])) >= 2
    /\ At(ls[3 * k - 1], 9 + DigitRun(ls[3 * k - 1], 9, Len(ls[3 * k - 1]))) = " "
    /\ starts_with(ls[3 * k], <<" "," "," "," ","I","N","D","E","X"," ","0","1"," ">>)

layout_ok(ls, tracks) ==
    /\ Len(ls) = 3 * Len(tracks)
    /\ \A k \in 1..Len(tracks) :
          /\ well_formed(ls, k)
          /\ desc_number(ls, k) = k
          /\ desc_file(ls, k) = path_name(tracks[k])
          /\ desc_mode(ls, k) = (IF k = 1 THEN MODE2 ELSE AUDIO)
          /\ desc_index(ls, k) = <<"0","0",":","0","0",":","0","0">>

\* C9: the cue synthesized for N >= 1 tracks has N descriptors in input
\* order, numbered 1..N, the k-th naming the k-th track's file; track 1 is
\* MODE2/2352, every later track AUDIO, every INDEX 01 is 00:00:00.
C9_SynthLayout ==
    (/\ ypc = "done"
     /\ find_with_depth(game_files, DOT_CUE) = <<>>
     /\ find_with_depth(game_files, DOT_BIN) # <<>>)
        => /\ cue_ret = <<TmpDir, base_name \o DOT_CUE>>
           /\ DOMAIN tmp_cues = {base_name \o DOT_CUE}
           /\ layout_ok(lines_of(tmp_cues[base_name \o DOT_CUE]),
                        find_with_depth(game_files, DOT_BIN))

\* A cue for three tracks has been synthesized
C9_Witness ==
    /\ ypc = "done"
    /\ cue_ret # None
    /\ DOMAIN tmp_cues # {}
    /\ Len(find_with_depth(game_files, DOT_BIN)) = 3

C5_BatchContinues == bpc = "done" => visited = 1..Len(units)

\* The files of all groups of collect_games's result
grouped_files == UNION {games[k].files : k \in DOMAIN games}

\* The cues of the root whose stem derives an empty key
empty_key_cues ==
    {n \in root_names(root_tree) :
        ends_with(n, DOT_CUE) /\ game_key_from_stem(path_stem(n)).key = <<>>}

\* The cues of the root that have their bin and derive a key
keyed_cues ==
    {n \in root_names(root_tree) :
        /\ ends_with(n, DOT_CUE)
        /\ with_suffix(n, DOT_BIN) \in root_names(root_tree)
        /\ game_key_from_stem(path_stem(n)).key # <<>>}

\* C11: a cue whose stem derives the empty key is skipped by collect_games
\* and the cues after it are still grouped: no group has an empty key or an
\* empty display name, the skipped cue and its bin are in no group, and every
\* other cue with a bin is in the group of its key.
C11_NoEmptyKey ==
    (tool = "pack" /\ bpc \in {"games", "done"}) =>
        /\ \A k \in DOMAIN games : k # <<>> /\ games[k].display # <<>>
        /\ \A n \in empty_key_cues :
              n \notin grouped_files /\ with_suffix(n, DOT_BIN) \notin grouped_files
        /\ \A n \in keyed_cues :
              /\ game_key_from_stem(path_stem(n)).key \in DOMAIN games
              /\ {n, with_suffix(n, DOT_BIN)}
                     \subseteq games[game_key_from_stem(path_stem(n)).key].files

\* collect_games has skipped a cue with its bin for its empty key, and
\* grouped a cue that sorts after it
C11_Witness ==
    /\ tool = "pack"
    /\ bpc = "games"
    /\ \E n \in empty_key_cues :
          /\ with_suffix(n, DOT_BIN) \in root_names(root_tree)
          /\ \E m \in keyed_cues : NameLess(n, m)

\* C12: a dry run leaves the file system unchanged: with --dry-run no step
\* of the taggers changes the directory (no rename, no cue rewritten: names
\* and bytes stay), and no step of the packager changes the root folder (no
\* archive removed, none created), --overwrite or not.
C12_DryRunFrame ==
    [][/\ dry_run => fs' = fs
       /\ opt_dry_run => root_tree' = root_tree]_vars

\* A dry run of the packager with --overwrite has passed a game whose
\* archive exists, and is over
C12_Witness ==
    /\ tool = "pack"
    /\ opt_dry_run
    /\ opt_overwrite
    /\ bpc = "done"
    /\ \E i \in visited : <<archive_name(games[units[i]].display)>> \in root_tree

\* The marker forms "(" disc, optional whitespace, digits, optional
\* whitespace, ")"
ParenForms == { "(Disc N)", "(discN)", "(DISC  N)", "(Disc N )" }

DigitCount(s) == Cardinality({i \in 1..Len(s) : IsDigit(s[i])})

\* C13: a parenthesized disc marker is removed entirely: in the key derived
\* from a stem with such a marker no parenthesis and no digit is left but
\* those of the title and of the text after the marker.
C13_ParenMarkerRemoved ==
    (kpc = "done" /\ disc_a.form \in ParenForms) =>
        /\ Count(key_a, "(") = Count(disc_a.title \o disc_a.after, "(")
        /\ Count(key_a, ")") = Count(disc_a.title \o disc_a.after, ")")
        /\ DigitCount(key_a) = DigitCount(disc_a.title \o disc_a.after)

=============================================================================
